---- MODULE Spec2Model ----
(***************************************************************************)
(* A model of novel-finder: the deduplicating frontier queue               *)
(* (src/queue.rs), the hard filter (src/eval/filter.rs) and the pipeline   *)
(* loop that seeds, filters, scores and expands the frontier               *)
(* (src/pipeline.rs).                                                      *)
(*                                                                         *)
(* Time is counted in whole seconds.  Ratings are counted in tenths.       *)
(* An Option<T> is a sequence of length 0 (None) or 1 (Some).              *)
(***************************************************************************)
EXTENDS Integers, Sequences, FiniteSets, TLC

\* ------------------------------------------------------------------ bounds

\* Novel ids range over 1..NumIds.
NumIds == 3
\* A manual seed list has at most MaxSeeds entries.
MaxSeeds == 2
\* A discovery call returns at most MaxDiscovered novels.
MaxDiscovered == 2
\* max_novels ranges over 0..MaxN.
MaxN == 2
\* max_time ranges over 0..MaxT seconds.
MaxT == 2
\* A fetch takes between REQUEST_DELAY and MaxFetch seconds; an evaluate or a
\* discover call takes at most MaxFetch seconds.
MaxFetch == 2
\* An overall score is one of 0..MaxScore.
MaxScore == 1

\* A novel given to the filter has 0..MaxPages pages, and a page bound is one
\* of 0..MaxPages.
MaxPages == 1
\* A novel given to the filter has a rating of 0..MaxRating tenths, and
\* min_rating is one of 0..MaxRating.
MaxRating == 1
\* A page has at most MaxBlocks `div.review` elements.
MaxBlocks == 3
\* The cap max_reviews is one of 0..MaxReviews.
MaxReviews == 2

\* The delay slept before every request (Duration::from_millis(1000)).
REQUEST_DELAY == 1

Ids == 1..NumIds

Min(a, b) == IF a <= b THEN a ELSE b

None == <<>>
Some(v) == <<v>>

\* ------------------------------------------------------------------ models.rs

NovelStatus == {"Ongoing", "Completed", "Hiatus", "Dropped", "Stub"}

\* models::Novel, with the fields the queue, the filter and the pipeline read.
Novel(id, title, pages, rating, status, tags) ==
    [id |-> id, title |-> title, pages |-> pages, rating |-> rating,
     status |-> status, tags |-> tags]

\* models::Criteria with every field unset.
NoCriteria ==
    [min_pages |-> None, max_pages |-> None, min_rating |-> None,
     allowed_statuses |-> None, required_tags |-> None, excluded_tags |-> None]

\* models::NovelScore: the scored novel and its overall score.
NovelScore(novel, score) == [novel |-> novel, overall_score |-> score]

\* ------------------------------------------------------------------ eval/filter.rs

\* char::to_lowercase on the letters a, b, A, B.
LowerChar(c) == IF c = "A" THEN "a" ELSE IF c = "B" THEN "b" ELSE c

\* str::to_lowercase: a tag is a sequence of letters.
to_lowercase(s) == [i \in 1..Len(s) |-> LowerChar(s[i])]

\* novel.tags.iter().any(|t| t.to_lowercase() == tag_lower)
HasTag(novel, tag) ==
    \E i \in 1..Len(novel.tags) : to_lowercase(novel.tags[i]) = to_lowercase(tag)

\* passes_hard_filters with the rating check turned round: a rating above
\* min_rating is rejected.
passesHardFiltersRatingReversed(novel, criteria) ==
    /\ criteria.min_pages # None => ~(novel.pages < criteria.min_pages[1])
    /\ criteria.max_pages # None => ~(novel.pages > criteria.max_pages[1])
    /\ criteria.min_rating # None => ~(novel.rating > criteria.min_rating[1])
    /\ criteria.allowed_statuses # None =>
         ~(/\ criteria.allowed_statuses[1] # <<>>
           /\ \A i \in 1..Len(criteria.allowed_statuses[1]) :
                criteria.allowed_statuses[1][i] # novel.status)
    /\ criteria.required_tags # None =>
         \A i \in 1..Len(criteria.required_tags[1]) :
            HasTag(novel, criteria.required_tags[1][i])
    /\ criteria.excluded_tags # None =>
         \A i \in 1..Len(criteria.excluded_tags[1]) :
            ~HasTag(novel, criteria.excluded_tags[1][i])

\* passes_hard_filters with tags compared as written, case and all.
passesHardFiltersCaseSensitive(novel, criteria) ==
    /\ criteria.min_pages # None => ~(novel.pages < criteria.min_pages[1])
    /\ criteria.max_pages # None => ~(novel.pages > criteria.max_pages[1])
    /\ criteria.min_rating # None => ~(novel.rating < criteria.min_rating[1])
    /\ criteria.allowed_statuses # None =>
         ~(/\ criteria.allowed_statuses[1] # <<>>
           /\ \A i \in 1..Len(criteria.allowed_statuses[1]) :
                criteria.allowed_statuses[1][i] # novel.status)
    /\ criteria.required_tags # None =>
         \A i \in 1..Len(criteria.required_tags[1]) :
            \E k \in 1..Len(novel.tags) : novel.tags[k] = criteria.required_tags[1][i]
    /\ criteria.excluded_tags # None =>
         \A i \in 1..Len(criteria.excluded_tags[1]) :
            \A k \in 1..Len(novel.tags) : novel.tags[k] # criteria.excluded_tags[1][i]

\* passes_hard_filters: every check returns false on failure, so the result is
\* the conjunction of the six checks.
passes_hard_filters(novel, criteria) ==
    /\ criteria.min_pages # None => ~(novel.pages < criteria.min_pages[1])
    /\ criteria.max_pages # None => ~(novel.pages > criteria.max_pages[1])
    /\ criteria.min_rating # None => ~(novel.rating < criteria.min_rating[1])
    /\ criteria.allowed_statuses # None =>
         ~(/\ criteria.allowed_statuses[1] # <<>>
           /\ \A i \in 1..Len(criteria.allowed_statuses[1]) :
                criteria.allowed_statuses[1][i] # novel.status)
    /\ criteria.required_tags # None =>
         \A i \in 1..Len(criteria.required_tags[1]) :
            HasTag(novel, criteria.required_tags[1][i])
    /\ criteria.excluded_tags # None =>
         \A i \in 1..Len(criteria.excluded_tags[1]) :
            ~HasTag(novel, criteria.excluded_tags[1][i])

\* Evaluator::pre_filter of LocalEvaluator and of LlmEvaluator.
pre_filter(novel, criteria) == passes_hard_filters(novel, criteria)

\* A pre_filter that lets every novel through.
preFilterAcceptsAll(novel, criteria) == TRUE

\* LocalEvaluator::pre_filter
LocalEvaluator_pre_filter(novel, criteria) == passes_hard_filters(novel, criteria)

\* LlmEvaluator::pre_filter
LlmEvaluator_pre_filter(novel, criteria) == passes_hard_filters(novel, criteria)

\* How a call of Evaluator::evaluate ends: with Ok(score), or in a panic.
EvalOk(score) == [kind |-> "ok", score |-> score]
EvalPanic == [kind |-> "panic"]

\* LocalEvaluator::evaluate: its body is todo!().
LocalEvaluator_evaluate(novel, reviews, criteria) == EvalPanic

\* LlmEvaluator::evaluate: its body is todo!().
LlmEvaluator_evaluate(novel, reviews, criteria) == EvalPanic

\* ------------------------------------------------------------------ scraper/reviews.rs

\* A `div.review` element, as far as the extraction reads it:
\*   author  the text of the first `div.review-meta a.small`, if there is one
\*   labels  the aria-label of each `div.overall-score-container div[aria-label]`:
\*           whether it ends with "star(s)" and, if what stands before parses
\*           as a number, that number
\*   text    the text of the first `div.review-inner`, if there is one
\*   time    the datetime attribute, if any, of the first `div.review-meta time`,
\*           if there is one
ReviewBlock(author, labels, text, time) ==
    [author |-> author, labels |-> labels, text |-> text, time |-> time]

AriaLabel(stars, number) == [stars |-> stars, number |-> number]

\* models::Review
Review(author, rating, text, posted_date) ==
    [author |-> author, rating |-> rating, text |-> text, posted_date |-> posted_date]

\* extract_review_author
extract_review_author(review_el) == review_el.author

\* extract_review_rating: the number of the first label that ends with
\* "star(s)" and parses.
RECURSIVE extract_review_rating_from(_)
extract_review_rating_from(labels) ==
    IF labels = <<>> THEN None
    ELSE IF Head(labels).stars /\ Head(labels).number # None
         THEN Some(Head(labels).number[1])
         ELSE extract_review_rating_from(Tail(labels))

extract_review_rating(review_el) == extract_review_rating_from(review_el.labels)

\* extract_review_text
extract_review_text(review_el) == review_el.text

\* extract_review_date: select(..).next().and_then(|el| el.attr("datetime"))
extract_review_date(review_el) ==
    IF review_el.time = None THEN None ELSE review_el.time[1]

\* One turn of `for review_el in document.select(&review_selector)` and the
\* turns after it; `reviews` is the vector built so far.
RECURSIVE ParseReviewsLoop(_, _, _)
ParseReviewsLoop(blocks, max_reviews, reviews) ==
    IF blocks = <<>> THEN reviews
    ELSE IF Len(reviews) >= max_reviews THEN reviews
    ELSE LET review_el == Head(blocks)
             author == extract_review_author(review_el)
             rating == extract_review_rating(review_el)
             text == extract_review_text(review_el)
             posted_date == extract_review_date(review_el)
         IN ParseReviewsLoop(
                Tail(blocks), max_reviews,
                IF author # None /\ rating # None /\ text # None /\ posted_date # None
                THEN Append(reviews,
                            Review(author[1], rating[1], text[1], posted_date[1]))
                ELSE reviews)

\* A parse that stops after max_reviews elements, complete or not.
parseReviewsCapsElements(html, max_reviews) ==
    [kind |-> "ok",
     value |-> ParseReviewsLoop(SubSeq(html, 1, Min(max_reviews, Len(html))),
                                max_reviews, <<>>)]

\* parse_reviews_from_html: html is the sequence of the page's `div.review`
\* elements in document order.  The function ends with Ok(reviews).
parse_reviews_from_html(html, max_reviews) ==
    [kind |-> "ok", value |-> ParseReviewsLoop(html, max_reviews, <<>>)]

\* ------------------------------------------------------------------ scraper/novel_page.rs

\* anyhow::Result: Ok(value), or Err with the context message.
Ok(value) == [kind |-> "ok", value |-> value]
Err(context) == [kind |-> "err", context |-> context]

\* models::Novel with all its fields, as parse_novel_from_html builds it.
NovelRecord(id, title, author, url, description, pages, rating, status, tags, chapter_count, chapter_titles, followers, favorites) ==
    [id |-> id, title |-> title, author |-> author, url |-> url,
     description |-> description, pages |-> pages, rating |-> rating,
     status |-> status, tags |-> tags, chapter_count |-> chapter_count,
     chapter_titles |-> chapter_titles, followers |-> followers,
     favorites |-> favorites]

\* A page, as far as the extraction reads it:
\*   ld        None without a `script[type='application/ld+json']`; else
\*             Some(None) when its text is not JSON; else Some(Some(v)), v
\*             holding for each key None when the key is missing or of another
\*             type, and genre a list whose non-string elements are None
\*   labels    the text of each `span.label`
\*   stats     the `li` items of the stats section: what the item starts with,
\*             and the number its digits spell, if it has digits
\*   chapters  None without `window.chapters = [..];`; else Some(None) when the
\*             array is not JSON; else Some(Some(l)), l holding for each
\*             chapter its title, None when it has no string title
Page(ld, labels, stats, chapters) ==
    [ld |-> ld, labels |-> labels, stats |-> stats, chapters |-> chapters]

StatItem(starts_with, digits) == [starts_with |-> starts_with, digits |-> digits]

\* extract_ld_json
extract_ld_json(html) ==
    IF html.ld = None THEN Err("no JSON-LD script tag found")
    ELSE IF html.ld[1] = None THEN Err("failed to parse JSON-LD")
    ELSE Ok(html.ld[1][1])

\* text.trim().to_uppercase() on the label texts of the pages.
TrimUpper(text) ==
    CASE text = "Ongoing" -> "ONGOING"
      [] text = " Stub " -> "STUB"
      [] text = "Original" -> "ORIGINAL"
      [] OTHER -> text

\* extract_status: the first label that names a status.
RECURSIVE extract_status_from(_)
extract_status_from(labels) ==
    IF labels = <<>> THEN Err("could not find novel status in page")
    ELSE LET text == TrimUpper(Head(labels)) IN
         CASE text = "ONGOING" -> Ok("Ongoing")
           [] text = "COMPLETED" -> Ok("Completed")
           [] text = "HIATUS" -> Ok("Hiatus")
           [] text = "DROPPED" -> Ok("Dropped")
           [] text = "STUB" -> Ok("Stub")
           [] OTHER -> extract_status_from(Tail(labels))

extract_status(html) == extract_status_from(html.labels)

\* parse_stat_number: the digits of the item, or an error when it has none.
parse_stat_number(item) ==
    IF item.digits = None THEN Err("failed to parse stat number")
    ELSE Ok(item.digits[1])

\* The turns i.. of `for (i, item) in items.iter().enumerate()`, followers and
\* favorites being the two Options so far; an error of parse_stat_number
\* leaves the function.
RECURSIVE ExtractStatsLoop(_, _, _, _)
ExtractStatsLoop(items, i, followers, favorites) ==
    IF i > Len(items) THEN Ok(<<followers, favorites>>)
    ELSE IF items[i].starts_with = "Followers"
    THEN IF i + 1 <= Len(items)
         THEN LET n == parse_stat_number(items[i + 1]) IN
              IF n.kind = "err" THEN n
              ELSE ExtractStatsLoop(items, i + 1, Some(n.value), favorites)
         ELSE ExtractStatsLoop(items, i + 1, followers, favorites)
    ELSE IF items[i].starts_with = "Favorites"
    THEN IF i + 1 <= Len(items)
         THEN LET n == parse_stat_number(items[i + 1]) IN
              IF n.kind = "err" THEN n
              ELSE ExtractStatsLoop(items, i + 1, followers, Some(n.value))
         ELSE ExtractStatsLoop(items, i + 1, followers, favorites)
    ELSE ExtractStatsLoop(items, i + 1, followers, favorites)

\* extract_stats with a count that was not found taken as 0.
extractStatsDefaultsZero(html) ==
    LET found == ExtractStatsLoop(html.stats, 1, None, None) IN
    IF found.kind = "err" THEN found
    ELSE Ok(<<IF found.value[1] = None THEN 0 ELSE found.value[1][1],
              IF found.value[2] = None THEN 0 ELSE found.value[2][1]>>)

\* extract_stats
extract_stats(html) ==
    LET found == ExtractStatsLoop(html.stats, 1, None, None) IN
    IF found.kind = "err" THEN found
    ELSE IF found.value[1] = None THEN Err("could not find followers count")
    ELSE IF found.value[2] = None THEN Err("could not find favorites count")
    ELSE Ok(<<found.value[1][1], found.value[2][1]>>)

\* iter().filter_map(|v| v.as_str()..): the elements that are strings.
RECURSIVE FilterMapStr(_)
FilterMapStr(values) ==
    IF values = <<>> THEN <<>>
    ELSE Head(values) \o FilterMapStr(Tail(values))

\* extract_chapter_titles
extract_chapter_titles(html) ==
    IF html.chapters = None THEN Err("could not find window.chapters in page")
    ELSE IF html.chapters[1] = None THEN Err("failed to parse window.chapters JSON")
    ELSE Ok(FilterMapStr(html.chapters[1][1]))

\* strip_html_tags on the descriptions of the pages.
strip_html_tags(description_html) ==
    IF description_html = "<p>x</p>" THEN "x" ELSE description_html

\* parse_novel_from_html: each `?` returns the error of its step.
parse_novel_from_html(html, novel_id) ==
    LET ld_json == extract_ld_json(html) IN
    IF ld_json.kind = "err" THEN ld_json
    ELSE LET ld == ld_json.value IN
    IF ld.name = None THEN Err("missing 'name' in JSON-LD")
    ELSE IF ld.author_name = None THEN Err("missing 'author.name' in JSON-LD")
    ELSE IF ld.description = None THEN Err("missing 'description' in JSON-LD")
    ELSE IF ld.numberOfPages = None THEN Err("missing 'numberOfPages' in JSON-LD")
    ELSE IF ld.ratingValue = None
         THEN Err("missing 'aggregateRating.ratingValue' in JSON-LD")
    ELSE IF ld.genre = None THEN Err("missing 'genre' in JSON-LD")
    ELSE LET status == extract_status(html) IN
    IF status.kind = "err" THEN status
    ELSE LET stats == extract_stats(html) IN
    IF stats.kind = "err" THEN stats
    ELSE LET chapter_titles == extract_chapter_titles(html) IN
    IF chapter_titles.kind = "err" THEN chapter_titles
    ELSE Ok(NovelRecord(novel_id, ld.name[1], ld.author_name[1],
                        <<"https://www.royalroad.com/fiction/", novel_id>>,
                        strip_html_tags(ld.description[1]),
                        ld.numberOfPages[1], ld.ratingValue[1], status.value,
                        FilterMapStr(ld.genre[1]),
                        Len(chapter_titles.value), chapter_titles.value,
                        stats.value[1], stats.value[2]))

\* ------------------------------------------------------------------ queue.rs

\* NovelQueue::new
NewQueue == [queue |-> <<>>, seen |-> {}]

\* push that admits the novel but never records its id as seen.
pushForgetsSeen(q, novel) ==
    IF novel.id \in q.seen
    THEN [q |-> q, ret |-> FALSE]
    ELSE [q |-> [queue |-> Append(q.queue, novel), seen |-> q.seen],
          ret |-> TRUE]

\* push that appends the novel whether or not its id was seen.
pushAlwaysAppends(q, novel) ==
    [q |-> [queue |-> Append(q.queue, novel), seen |-> q.seen \cup {novel.id}],
     ret |-> novel.id \notin q.seen]

\* NovelQueue::push: the queue after the call and the value returned.
push(q, novel) ==
    IF novel.id \in q.seen
    THEN [q |-> q, ret |-> FALSE]
    ELSE [q |-> [queue |-> Append(q.queue, novel), seen |-> q.seen \cup {novel.id}],
          ret |-> TRUE]

\* pop that also forgets the id of the novel it returns.
popForgetsSeen(q) ==
    IF q.queue = <<>>
    THEN [q |-> q, ret |-> None]
    ELSE [q |-> [queue |-> Tail(q.queue), seen |-> q.seen \ {Head(q.queue).id}],
          ret |-> Some(Head(q.queue))]

\* pop that takes the novel at the tail (pop_back).
popBack(q) ==
    IF q.queue = <<>>
    THEN [q |-> q, ret |-> None]
    ELSE [q |-> [queue |-> SubSeq(q.queue, 1, Len(q.queue) - 1), seen |-> q.seen],
          ret |-> Some(q.queue[Len(q.queue)])]

\* pop that returns the head without removing it (front).
popKeepsHead(q) ==
    IF q.queue = <<>>
    THEN [q |-> q, ret |-> None]
    ELSE [q |-> q, ret |-> Some(Head(q.queue))]

\* pop that clears the seen set when it finds the queue empty.
popEmptyForgets(q) ==
    IF q.queue = <<>>
    THEN [q |-> [queue |-> <<>>, seen |-> {}], ret |-> None]
    ELSE [q |-> [queue |-> Tail(q.queue), seen |-> q.seen],
          ret |-> Some(Head(q.queue))]

\* NovelQueue::pop: the queue after the call and the Option<Novel> returned.
pop(q) ==
    IF q.queue = <<>>
    THEN [q |-> q, ret |-> None]
    ELSE [q |-> [queue |-> Tail(q.queue), seen |-> q.seen],
          ret |-> Some(Head(q.queue))]

\* NovelQueue::has_seen
has_seen(q, novel_id) == novel_id \in q.seen

\* NovelQueue::len
len(q) == Len(q.queue)

\* NovelQueue::is_empty
is_empty(q) == q.queue = <<>>

\* The discovered novels are appended to the frontier as they come.
PushAllUnchecked(q, novels) ==
    [queue |-> q.queue \o novels,
     seen |-> q.seen \cup {novels[i].id : i \in 1..Len(novels)}]

\* for discovered_novel in discovered { self.queue.push(discovered_novel); }
RECURSIVE PushAll(_, _)
PushAll(q, novels) ==
    IF novels = <<>> THEN q
    ELSE PushAll(push(q, Head(novels)).q, Tail(novels))

\* ------------------------------------------------------------------ pipeline.rs: pure parts

\* One '/'-separated part of a seed string: a number, the word "fiction", or
\* any other text.
NumPart(n) == <<"num", n>>
FictionPart == <<"fiction", 0>>
OtherPart == <<"other", 0>>

\* parts.get(i + 1) parses as u64, for the first i with parts[i] == "fiction"
\* where it does.
FictionHits(parts) ==
    {i \in 1..Len(parts) :
        /\ parts[i] = FictionPart
        /\ i + 1 <= Len(parts)
        /\ parts[i + 1][1] = "num"}

\* parse_novel_id: Some(id), or None for the error.
parse_novel_id(parts) ==
    IF Len(parts) = 1 /\ parts[1][1] = "num" THEN Some(parts[1][2])
    ELSE IF FictionHits(parts) = {} THEN None
    ELSE LET i == CHOOSE k \in FictionHits(parts) :
                    \A j \in FictionHits(parts) : k <= j
         IN Some(parts[i + 1][2])

\* should_stop with > where the code has >=.
shouldStopStrict(stop_condition, results, elapsed) ==
    CASE stop_condition.kind = "MaxNovels" -> Len(results) > stop_condition.value
      [] stop_condition.kind = "MaxTime" -> elapsed > stop_condition.value
      [] stop_condition.kind = "EmptyQueue" -> FALSE

\* should_stop, given the result list and start_time.elapsed().
should_stop(stop_condition, results, elapsed) ==
    CASE stop_condition.kind = "MaxNovels" -> Len(results) >= stop_condition.value
      [] stop_condition.kind = "MaxTime" -> elapsed >= stop_condition.value
      [] stop_condition.kind = "EmptyQueue" -> FALSE

\* An insertion that puts x before the elements it compares Equal to.
RECURSIVE InsertDescBeforeEqual(_, _)
InsertDescBeforeEqual(sorted, x) ==
    IF sorted = <<>> THEN <<x>>
    ELSE IF Head(sorted).overall_score > x.overall_score
         THEN <<Head(sorted)>> \o InsertDescBeforeEqual(Tail(sorted), x)
         ELSE <<x>> \o sorted

\* Where a stable sort by overall_score descending puts x in a sorted list:
\* after every element that does not compare Greater.
RECURSIVE InsertDesc(_, _)
InsertDesc(sorted, x) ==
    IF sorted = <<>> THEN <<x>>
    ELSE IF Head(sorted).overall_score >= x.overall_score
         THEN <<Head(sorted)>> \o InsertDesc(Tail(sorted), x)
         ELSE <<x>> \o sorted

\* results.sort_by(|a, b| b.overall_score.partial_cmp(&a.overall_score)...)
RECURSIVE SortDesc(_)
SortDesc(results) ==
    IF results = <<>> THEN <<>>
    ELSE InsertDesc(SortDesc(SubSeq(results, 1, Len(results) - 1)),
                    results[Len(results)])

\* ------------------------------------------------------------------ state

VARIABLES
    config,         \* AppConfig: seed_source, stop_condition, discovery_enabled, criteria
    queue,          \* Pipeline.queue, a NovelQueue: [queue, seen]
    pc,             \* where run() is
    seed_idx,       \* gather_seeds: index of the next seed string
    results,        \* run's local results: Vec<NovelScore>
    novel,          \* the novel bound by `while let Some(novel)`, as an Option
    now,            \* seconds on the wall clock since run() was entered
    start_time,     \* run's local start_time, None until it is taken
    returned,       \* what run() returned: None, or Some(list)
    trace,          \* observations of the run (see NoTrace)
    hist,           \* observations of the queue harness (see NoHist)
    probe           \* a call of the filter or of an evaluator (see NoProbe)

vars == <<config, queue, pc, seed_idx, results, novel, now, start_time,
          returned, trace, hist, probe>>

\* What a run has done so far; nothing here is read by the program.
NoTrace ==
    [at_boundary |-> <<>>,    \* the frontier when the current iteration began
     stopped_by |-> "none",   \* "condition" or "exhausted", once the loop has exited
     checked_at |-> None,     \* the elapsed time the last should_stop call read
     rejected |-> {},         \* ids whose pre_filter returned false
     fetched |-> {},          \* ids whose reviews were requested
     evaluated |-> {},        \* ids evaluate was called for
     discovered_for |-> {},   \* ids discover was called for
     discover_result |-> "none",  \* how the last discover call ended
     keep_discovered |-> FALSE,  \* whether `discovered` is recorded
     discovered |-> <<>>,     \* the list a discover call has just returned
     error |-> [call |-> "none", at |-> 0]]  \* the call that returned Err, and the
                              \* seed index or novel id it was made for

\* What the harness has done to the queue so far.
NoHist ==
    [offered |-> {},          \* ids of the items passed to push
     admitted |-> <<>>,       \* items for which push returned true, in order
     popped |-> <<>>,         \* items returned by pop, in order
     last |-> [op |-> "new", arg |-> None, ret |-> None]]  \* the last call

\* A call made on its own: the function, its arguments and what it returned.
NoProbe ==
    [fn |-> "none", novel |-> None, criteria |-> None, ret |-> None,
     changed |-> "none",      \* the criteria field changed before the last call
     before |-> None]         \* what the call before the last one returned

\* ------------------------------------------------------------------ inputs

\* Seed strings: "1", "x/fiction/x/fiction/2/x" and "x".
SeedStrings ==
    {<<NumPart(1)>>,
     <<OtherPart, FictionPart, OtherPart, FictionPart, NumPart(2), OtherPart>>,
     <<OtherPart>>}

SeedLists == UNION {[1..n -> SeedStrings] : n \in 0..MaxSeeds}

SeedSources ==
    {[kind |-> "Manual", urls |-> u] : u \in SeedLists} \cup {[kind |-> "Search", urls |-> <<>>]}

StopConditions ==
    {[kind |-> "MaxNovels", value |-> n] : n \in 0..MaxN}
    \cup {[kind |-> "MaxTime", value |-> t] : t \in 0..MaxT}
    \cup {[kind |-> "EmptyQueue", value |-> 0]}

\* The criteria of a run: none, at least 2 pages, or at most 2 pages.
RunCriteria ==
    {NoCriteria,
     [NoCriteria EXCEPT !.min_pages = Some(2)],
     [NoCriteria EXCEPT !.max_pages = Some(2)]}

\* The novel the site serves for an id: 1 page for an odd id, 3 for an even one.
SiteNovel(id) == Novel(id, "t", IF id % 2 = 1 THEN 1 ELSE 3, 40, "Ongoing", <<>>)

\* What a discovery call can return: up to MaxDiscovered novels of any ids.
DiscoveredLists ==
    UNION {[1..n -> {SiteNovel(i) : i \in Ids}] : n \in 0..MaxDiscovered}

\* should_stop is all that reads the clock, and it compares the elapsed time
\* with max_time: every moment from max_time on acts alike, so the clock is
\* counted up to there (and not at all under another stop condition), once
\* from the entry of run() and once from start_time.
Horizon ==
    IF config.stop_condition.kind = "MaxTime" THEN config.stop_condition.value ELSE 0

\* The clock after d more seconds.
Later(d) ==
    Min(now + d, (IF start_time = None THEN 0 ELSE start_time[1]) + Horizon)

\* The clock after a call that takes lo..hi seconds.
Laters(lo, hi) == {Later(d) : d \in lo..hi}

\* start_time.elapsed()
Elapsed == now - start_time[1]

\* ------------------------------------------------------------------ Pipeline::run

Init ==
    /\ config \in [seed_source : SeedSources, stop_condition : StopConditions,
                   discovery_enabled : BOOLEAN, criteria : RunCriteria]
    /\ queue = NewQueue
    /\ pc = "seeding"
    /\ seed_idx = 1
    /\ results = <<>>
    /\ novel = None
    /\ now = 0
    /\ start_time = None
    /\ returned = None
    /\ trace = NoTrace
    /\ hist = NoHist
    /\ probe = NoProbe

\* The call `call` made for `at` returned Err.
Failed(call, at) == [trace EXCEPT !.error = [call |-> call, at |-> at]]

\* A seed that cannot be resolved, fetched or extracted is logged and the loop
\* goes on to the next seed.
GatherSeedManualSkips ==
    /\ pc = "seeding"
    /\ config.seed_source.kind = "Manual"
    /\ seed_idx <= Len(config.seed_source.urls)
    /\ LET id == parse_novel_id(config.seed_source.urls[seed_idx]) IN
         \/ /\ id = None
            /\ trace' = Failed("parse_novel_id", seed_idx)
            /\ UNCHANGED <<queue, now>>
         \/ /\ id # None
            /\ \E t \in Laters(REQUEST_DELAY, MaxFetch) :
                 /\ now' = t
                 /\ \/ /\ \E call \in {"fetch", "parse_novel_from_html"} :
                            trace' = Failed(call, seed_idx)
                       /\ UNCHANGED queue
                    \/ /\ queue' = push(queue, SiteNovel(id[1])).q
                       /\ UNCHANGED trace
    /\ seed_idx' = seed_idx + 1
    /\ pc' = "seeding"
    /\ UNCHANGED <<config, results, novel, start_time, returned, hist, probe>>

\* gather_seeds, SeedSource::Manual: one turn of `for url in urls`.
\* parse_novel_id and scrape_novel each return early with `?` on an error;
\* scrape_novel fails when its fetch or its parse_novel_from_html does.
GatherSeedManual ==
    /\ pc = "seeding"
    /\ config.seed_source.kind = "Manual"
    /\ seed_idx <= Len(config.seed_source.urls)
    /\ LET id == parse_novel_id(config.seed_source.urls[seed_idx]) IN
         \/ /\ id = None
            /\ pc' = "failed"
            /\ trace' = Failed("parse_novel_id", seed_idx)
            /\ UNCHANGED <<queue, seed_idx, now>>
         \/ /\ id # None
            /\ \E t \in Laters(REQUEST_DELAY, MaxFetch) :
                 /\ now' = t
                 /\ \/ /\ pc' = "failed"
                       /\ \E call \in {"fetch", "parse_novel_from_html"} :
                            trace' = Failed(call, seed_idx)
                       /\ UNCHANGED <<queue, seed_idx>>
                    \/ /\ queue' = push(queue, SiteNovel(id[1])).q
                       /\ seed_idx' = seed_idx + 1
                       /\ pc' = "seeding"
                       /\ UNCHANGED trace
    /\ UNCHANGED <<config, results, novel, start_time, returned, hist, probe>>

\* gather_seeds, SeedSource::Search: search_novels is todo!().
GatherSeedSearch ==
    /\ pc = "seeding"
    /\ config.seed_source.kind = "Search"
    /\ pc' = "panicked"
    /\ UNCHANGED <<config, queue, seed_idx, results, novel, now, start_time,
                   returned, trace, hist, probe>>

\* The loop is entered as soon as one seed is in the frontier.
StartProcessingEarly ==
    /\ pc = "seeding"
    /\ config.seed_source.kind = "Manual"
    /\ seed_idx > Min(1, Len(config.seed_source.urls))
    /\ results' = <<>>
    /\ start_time' = Some(now)
    /\ pc' = "pop"
    /\ UNCHANGED <<config, queue, seed_idx, novel, now, returned, trace, hist, probe>>

\* gather_seeds returned Ok: results = Vec::new(), start_time = Instant::now().
StartProcessing ==
    /\ pc = "seeding"
    /\ config.seed_source.kind = "Manual"
    /\ seed_idx > Len(config.seed_source.urls)
    /\ results' = <<>>
    /\ start_time' = Some(now)
    /\ pc' = "pop"
    /\ UNCHANGED <<config, queue, seed_idx, novel, now, returned, trace, hist, probe>>

\* After the loop: sort the results and return them.
Finish(why) ==
    /\ returned' = Some(SortDesc(results))
    /\ pc' = "done"
    /\ trace' = [trace EXCEPT !.stopped_by = why, !.at_boundary = queue.queue,
                              !.discovered = <<>>]

\* An empty queue ends the loop only once the stop condition holds; until
\* then the loop waits a second and looks again.
PopNoneWaits ==
    /\ pc = "pop"
    /\ pop(queue).ret = None
    /\ queue' = pop(queue).q
    /\ IF should_stop(config.stop_condition, results, Elapsed)
          \/ config.stop_condition.kind = "EmptyQueue"
       THEN Finish("exhausted") /\ UNCHANGED now
       ELSE now' = Later(1) /\ UNCHANGED <<pc, returned, trace>>
    /\ UNCHANGED <<config, seed_idx, results, novel, start_time, hist, probe>>

\* `while let Some(novel) = self.queue.pop()`: the queue is empty.
PopNone ==
    /\ pc = "pop"
    /\ pop(queue).ret = None
    /\ queue' = pop(queue).q
    /\ Finish("exhausted")
    /\ UNCHANGED <<config, seed_idx, results, novel, now, start_time, hist, probe>>

\* `while let Some(novel) = self.queue.pop()`: a novel is popped.
PopSome ==
    /\ pc = "pop"
    /\ pop(queue).ret # None
    /\ queue' = pop(queue).q
    /\ novel' = pop(queue).ret
    /\ pc' = "check"
    /\ trace' = [trace EXCEPT !.at_boundary = queue.queue, !.discovered = <<>>]
    /\ UNCHANGED <<config, seed_idx, results, now, start_time, returned, hist, probe>>

\* `if self.should_stop(&results, start_time) { break; }`
StopCheck ==
    /\ pc = "check"
    /\ IF should_stop(config.stop_condition, results, Elapsed)
       THEN /\ returned' = Some(SortDesc(results))
            /\ pc' = "done"
            /\ trace' = [trace EXCEPT !.stopped_by = "condition",
                                      !.checked_at = Some(Elapsed)]
       ELSE /\ pc' = "prefilter"
            /\ trace' = [trace EXCEPT !.checked_at = Some(Elapsed)]
            /\ UNCHANGED returned
    /\ UNCHANGED <<config, queue, seed_idx, results, novel, now, start_time, hist, probe>>

\* The pre-filter's verdict is logged but the `continue` is missing.
PreFilterFallsThrough ==
    /\ pc = "prefilter"
    /\ pc' = "fetch"
    /\ trace' = IF ~pre_filter(novel[1], config.criteria)
                THEN [trace EXCEPT !.rejected = @ \cup {novel[1].id}]
                ELSE trace
    /\ UNCHANGED <<config, queue, seed_idx, results, novel, now, start_time,
                   returned, hist, probe>>

\* `if !self.evaluator.pre_filter(&novel, &self.config.criteria) { continue; }`
PreFilter ==
    /\ pc = "prefilter"
    /\ IF ~pre_filter(novel[1], config.criteria)
       THEN /\ pc' = "pop"
            /\ trace' = [trace EXCEPT !.rejected = @ \cup {novel[1].id}]
       ELSE /\ pc' = "fetch"
            /\ UNCHANGED trace
    /\ UNCHANGED <<config, queue, seed_idx, results, novel, now, start_time,
                   returned, hist, probe>>

\* A failed review fetch is logged and the candidate skipped.
FetchReviewsSkipsOnError ==
    /\ pc = "fetch"
    /\ now' \in Laters(REQUEST_DELAY, MaxFetch)
    /\ \/ /\ pc' = "evaluate"
          /\ trace' = [trace EXCEPT !.fetched = @ \cup {novel[1].id}]
       \/ /\ pc' = "pop"
          /\ trace' = [Failed("scrape_reviews", novel[1].id)
                         EXCEPT !.fetched = @ \cup {novel[1].id}]
    /\ UNCHANGED <<config, queue, seed_idx, results, novel, start_time, returned, hist, probe>>

\* scrape_reviews(&self.client, novel.id, 10)?: the fetch sleeps, then the
\* request succeeds or fails.
FetchReviews ==
    /\ pc = "fetch"
    /\ now' \in Laters(REQUEST_DELAY, MaxFetch)
    /\ \/ /\ pc' = "evaluate"
          /\ trace' = [trace EXCEPT !.fetched = @ \cup {novel[1].id}]
       \/ /\ pc' = "failed"
          /\ trace' = [Failed("scrape_reviews", novel[1].id)
                         EXCEPT !.fetched = @ \cup {novel[1].id}]
    /\ UNCHANGED <<config, queue, seed_idx, results, novel, start_time, returned, hist, probe>>

\* The stop condition is looked at right after the score is pushed, and
\* discover is left out when it holds.
AfterScoreStopsFirst ==
    IF config.discovery_enabled
       /\ ~(config.stop_condition.kind = "MaxNovels"
            /\ Len(results) + 1 >= config.stop_condition.value)
    THEN "discover" ELSE "pop"

\* A discovery source is kept whatever the configuration says.
AfterScoreAlwaysDiscovers == "discover"

\* Where the loop goes after results.push(score).
AfterScore == IF config.discovery_enabled THEN "discover" ELSE "pop"

\* A failed evaluation ends the run with the scores gathered so far.
EvaluateReturnsPartial ==
    /\ pc = "evaluate"
    /\ now' \in Laters(0, MaxFetch)
    /\ \/ \E s \in 0..MaxScore :
            /\ results' = Append(results, NovelScore(novel[1], s))
            /\ pc' = AfterScore
            /\ trace' = [trace EXCEPT !.evaluated = @ \cup {novel[1].id}]
            /\ UNCHANGED returned
       \/ /\ pc' = "failed"
          /\ trace' = [Failed("evaluate", novel[1].id)
                         EXCEPT !.evaluated = @ \cup {novel[1].id}]
          /\ returned' = Some(SortDesc(results))
          /\ UNCHANGED results
       \/ /\ pc' = "panicked"
          /\ trace' = [trace EXCEPT !.evaluated = @ \cup {novel[1].id}]
          /\ UNCHANGED <<results, returned>>
    /\ UNCHANGED <<config, queue, seed_idx, novel, start_time, hist, probe>>

\* self.evaluator.evaluate(..)? and results.push(score).  An Evaluator returns
\* Ok(score) or Err, after any time; the two shipped evaluators are todo!()
\* and panic.
Evaluate ==
    /\ pc = "evaluate"
    /\ now' \in Laters(0, MaxFetch)
    /\ \/ \E s \in 0..MaxScore :
            /\ results' = Append(results, NovelScore(novel[1], s))
            /\ pc' = AfterScore
            /\ trace' = [trace EXCEPT !.evaluated = @ \cup {novel[1].id}]
       \/ /\ pc' = "failed"
          /\ trace' = [Failed("evaluate", novel[1].id)
                         EXCEPT !.evaluated = @ \cup {novel[1].id}]
          /\ UNCHANGED results
       \/ /\ pc' = "panicked"
          /\ trace' = [trace EXCEPT !.evaluated = @ \cup {novel[1].id}]
          /\ UNCHANGED results
    /\ UNCHANGED <<config, queue, seed_idx, novel, start_time, returned, hist, probe>>

\* Ok(discovered) => push every discovered novel, in order.
DiscoverOk(discovered) ==
    /\ queue' = PushAll(queue, discovered)
    /\ pc' = "pop"
    /\ trace' = [trace EXCEPT !.discovered_for = @ \cup {novel[1].id},
                              !.discover_result = "ok",
                              !.discovered = IF trace.keep_discovered
                                             THEN discovered ELSE <<>>]

\* Err(e) propagated with `?`: the run fails.
DiscoverErrAborts ==
    /\ queue' = queue
    /\ pc' = "failed"
    /\ trace' = [trace EXCEPT !.discovered_for = @ \cup {novel[1].id},
                              !.discover_result = "err"]

\* Err(e) => tracing::warn!(..): the loop goes on.
DiscoverErr ==
    /\ queue' = queue
    /\ pc' = "pop"
    /\ trace' = [trace EXCEPT !.discovered_for = @ \cup {novel[1].id},
                              !.discover_result = "err"]

\* AlsoLikedDiscovery::discover is todo!(): the call panics.
DiscoverPanic ==
    /\ queue' = queue
    /\ pc' = "panicked"
    /\ trace' = [trace EXCEPT !.discovered_for = @ \cup {novel[1].id},
                              !.discover_result = "panic"]

\* `if let Some(ref discovery) = self.discovery { match discovery.discover(&novel) ..`
\* A DiscoverySource returns Ok(list) or Err, after any time.
Discover ==
    /\ pc = "discover"
    /\ now' \in Laters(0, MaxFetch)
    /\ \/ \E discovered \in DiscoveredLists : DiscoverOk(discovered)
       \/ DiscoverErr
       \/ DiscoverPanic
    /\ UNCHANGED <<config, seed_idx, results, novel, start_time, returned, hist, probe>>

Next ==
    \/ GatherSeedManual
    \/ GatherSeedSearch
    \/ StartProcessing
    \/ PopNone
    \/ PopSome
    \/ StopCheck
    \/ PreFilter
    \/ FetchReviews
    \/ Evaluate
    \/ Discover

Spec == Init /\ [][Next]_vars

\* ------------------------------------------------------------------ NovelQueue on its own

\* The items a caller can push: two novels per id, told apart by title.
QueueItems == {Novel(i, t, 1, 40, "Ongoing", <<>>) : i \in Ids, t \in {"t", "u"}}

QueueInit ==
    /\ config = [seed_source |-> [kind |-> "Manual", urls |-> <<>>],
                 stop_condition |-> [kind |-> "EmptyQueue", value |-> 0],
                 discovery_enabled |-> FALSE, criteria |-> NoCriteria]
    /\ queue = NewQueue
    /\ pc = "queue"
    /\ seed_idx = 1
    /\ results = <<>>
    /\ novel = None
    /\ now = 0
    /\ start_time = None
    /\ returned = None
    /\ trace = NoTrace
    /\ hist = NoHist
    /\ probe = NoProbe

\* A caller pushes item.
QueuePush(item) ==
    /\ pc = "queue"
    /\ queue' = push(queue, item).q
    /\ hist' = [offered |-> hist.offered \cup {item.id},
                admitted |-> IF push(queue, item).ret
                             THEN Append(hist.admitted, item) ELSE hist.admitted,
                popped |-> hist.popped,
                last |-> [op |-> "push", arg |-> Some(item),
                         ret |-> Some(push(queue, item).ret)]]
    /\ UNCHANGED <<config, pc, seed_idx, results, novel, now, start_time,
                   returned, trace, probe>>

\* A caller pops.
QueuePop ==
    /\ pc = "queue"
    /\ queue' = pop(queue).q
    /\ hist' = [offered |-> hist.offered,
                admitted |-> hist.admitted,
                popped |-> hist.popped \o pop(queue).ret,
                last |-> [op |-> "pop", arg |-> None, ret |-> pop(queue).ret]]
    /\ UNCHANGED <<config, pc, seed_idx, results, novel, now, start_time,
                   returned, trace, probe>>

\* A caller reads through &self: fn is the observer, arg its argument and ret
\* the value it returns.
QueueObserve(fn, arg, ret) ==
    /\ pc = "queue"
    /\ hist' = [hist EXCEPT !.last = [op |-> fn, arg |-> arg, ret |-> Some(ret)]]
    /\ UNCHANGED <<config, queue, pc, seed_idx, results, novel, now, start_time,
                   returned, trace, probe>>

\* A caller asks for the length.
QueueLen == QueueObserve("len", None, len(queue))

\* A caller asks whether the queue is empty.
QueueIsEmpty == QueueObserve("is_empty", None, is_empty(queue))

\* A caller asks whether novel_id was seen.
QueueHasSeen(novel_id) ==
    QueueObserve("has_seen", Some(novel_id), has_seen(queue, novel_id))

QueueNext ==
    \/ \E item \in QueueItems : QueuePush(item)
    \/ QueuePop
    \/ QueueLen
    \/ QueueIsEmpty
    \/ \E novel_id \in Ids : QueueHasSeen(novel_id)

QueueSpec == QueueInit /\ [][QueueNext]_vars

\* Pipeline::run with the list of every discover call recorded.
DiscoveryInit ==
    /\ config \in [seed_source : SeedSources, stop_condition : StopConditions,
                   discovery_enabled : BOOLEAN, criteria : RunCriteria]
    /\ queue = NewQueue
    /\ pc = "seeding"
    /\ seed_idx = 1
    /\ results = <<>>
    /\ novel = None
    /\ now = 0
    /\ start_time = None
    /\ returned = None
    /\ trace = [NoTrace EXCEPT !.keep_discovered = TRUE]
    /\ hist = NoHist
    /\ probe = NoProbe

DiscoverySpec == DiscoveryInit /\ [][Next]_vars

\* ------------------------------------------------------------------ the filter and the evaluators on their own

\* Tags: "a", "A" and "ab".
TagNames == {<<"a">>, <<"A">>, <<"a", "b">>}

\* The tag lists of a novel and of the criteria.
TagLists ==
    {<<>>} \cup {<<t>> : t \in TagNames}
    \cup {<<<<"a">>, <<"a", "b">>>>, <<<<"a", "b">>, <<"A">>>>}

\* The novels given to the filter.
FilterNovels ==
    {Novel(1, "t", p, r, st, tg) :
        p \in 0..MaxPages, r \in 0..MaxRating,
        st \in {"Ongoing", "Dropped"}, tg \in TagLists}

\* The allow-lists of the criteria.
AllowLists ==
    {<<>>, <<"Ongoing">>, <<"Completed">>, <<"Completed", "Ongoing">>}

CriteriaFields ==
    {"min_pages", "max_pages", "min_rating", "allowed_statuses",
     "required_tags", "excluded_tags"}

\* The values a criteria field is given.
FieldValues(f) ==
    {None} \cup
    CASE f \in {"min_pages", "max_pages"} -> {Some(n) : n \in 0..MaxPages}
      [] f = "min_rating" -> {Some(r) : r \in 0..MaxRating}
      [] f = "allowed_statuses" -> {Some(l) : l \in AllowLists}
      [] f \in {"required_tags", "excluded_tags"} -> {Some(l) : l \in TagLists}

\* The criteria given to the filter: any two fields set, to any values, the
\* others unset.
FilterCriteria ==
    UNION {UNION {{[[NoCriteria EXCEPT ![f] = v] EXCEPT ![g] = w] :
                      v \in FieldValues(f), w \in FieldValues(g)} :
                  g \in CriteriaFields} : f \in CriteriaFields}

EvaluatorInit ==
    /\ config = [seed_source |-> [kind |-> "Manual", urls |-> <<>>],
                 stop_condition |-> [kind |-> "EmptyQueue", value |-> 0],
                 discovery_enabled |-> FALSE, criteria |-> NoCriteria]
    /\ queue = NewQueue
    /\ pc = "evaluator"
    /\ seed_idx = 1
    /\ results = <<>>
    /\ novel = None
    /\ now = 0
    /\ start_time = None
    /\ returned = None
    /\ trace = NoTrace
    /\ hist = NoHist
    /\ \E n \in FilterNovels, c \in FilterCriteria :
          probe = [NoProbe EXCEPT !.novel = Some(n), !.criteria = Some(c)]

\* A call of fn on the novel and the criteria at hand returns ret.
Called(fn, ret) ==
    /\ pc = "evaluator"
    /\ probe.fn = "none"
    /\ probe' = [probe EXCEPT !.fn = fn, !.ret = Some(ret)]
    /\ UNCHANGED <<config, queue, pc, seed_idx, results, novel, now, start_time,
                   returned, trace, hist>>

CallPassesHardFilters ==
    Called("passes_hard_filters",
           passes_hard_filters(probe.novel[1], probe.criteria[1]))

CallLocalPreFilter ==
    Called("LocalEvaluator::pre_filter",
           LocalEvaluator_pre_filter(probe.novel[1], probe.criteria[1]))

CallLlmPreFilter ==
    Called("LlmEvaluator::pre_filter",
           LlmEvaluator_pre_filter(probe.novel[1], probe.criteria[1]))

CallLocalEvaluate ==
    Called("LocalEvaluator::evaluate",
           LocalEvaluator_evaluate(probe.novel[1], <<>>, probe.criteria[1]))

CallLlmEvaluate ==
    Called("LlmEvaluator::evaluate",
           LlmEvaluator_evaluate(probe.novel[1], <<>>, probe.criteria[1]))

\* passes_hard_filters is called again for the same novel, one field of the
\* criteria having been changed.
CallPassesHardFiltersAgain(f, v) ==
    /\ pc = "evaluator"
    /\ probe.fn = "passes_hard_filters"
    /\ v # probe.criteria[1][f]
    /\ LET c == [probe.criteria[1] EXCEPT ![f] = v] IN
         /\ c \in FilterCriteria
         /\ probe' = [probe EXCEPT
                         !.criteria = Some(c),
                         !.ret = Some(passes_hard_filters(probe.novel[1], c)),
                         !.changed = f,
                         !.before = probe.ret]
    /\ UNCHANGED <<config, queue, pc, seed_idx, results, novel, now, start_time,
                   returned, trace, hist>>

EvaluatorNext ==
    \/ CallPassesHardFilters
    \/ CallLocalPreFilter
    \/ CallLlmPreFilter
    \/ CallLocalEvaluate
    \/ CallLlmEvaluate
    \/ \E f \in CriteriaFields : \E v \in FieldValues(f) :
          CallPassesHardFiltersAgain(f, v)

EvaluatorSpec == EvaluatorInit /\ [][EvaluatorNext]_vars

\* ------------------------------------------------------------------ the review extraction on its own

\* The `div.review` elements of a page: two complete ones by different
\* authors, one complete after a label that does not parse, and one for each
\* way of missing a field.
ReviewBlocks ==
    {ReviewBlock(Some("u"), <<AriaLabel(FALSE, None), AriaLabel(TRUE, Some(50))>>,
                 Some("x"), Some(Some("d"))),
     ReviewBlock(Some("v"), <<AriaLabel(TRUE, None), AriaLabel(TRUE, Some(40))>>,
                 Some(""), Some(Some("d"))),
     ReviewBlock(None, <<AriaLabel(FALSE, None), AriaLabel(TRUE, Some(50))>>,
                 Some("x"), Some(Some("d"))),
     ReviewBlock(Some("u"), <<AriaLabel(FALSE, None)>>, Some("x"), Some(Some("d"))),
     ReviewBlock(Some("u"), <<AriaLabel(TRUE, None)>>, Some("x"), Some(Some("d"))),
     ReviewBlock(Some("u"), <<AriaLabel(FALSE, None), AriaLabel(TRUE, Some(50))>>,
                 None, Some(Some("d"))),
     ReviewBlock(Some("u"), <<AriaLabel(FALSE, None), AriaLabel(TRUE, Some(50))>>,
                 Some("x"), Some(None)),
     ReviewBlock(Some("u"), <<AriaLabel(FALSE, None), AriaLabel(TRUE, Some(50))>>,
                 Some("x"), None)}

ReviewPages == UNION {[1..n -> ReviewBlocks] : n \in 0..MaxBlocks}

ReviewsInit ==
    /\ config = [seed_source |-> [kind |-> "Manual", urls |-> <<>>],
                 stop_condition |-> [kind |-> "EmptyQueue", value |-> 0],
                 discovery_enabled |-> FALSE, criteria |-> NoCriteria]
    /\ queue = NewQueue
    /\ pc = "reviews"
    /\ seed_idx = 1
    /\ results = <<>>
    /\ novel = None
    /\ now = 0
    /\ start_time = None
    /\ returned = None
    /\ trace = NoTrace
    /\ hist = NoHist
    /\ \E html \in ReviewPages, max_reviews \in 0..MaxReviews :
          probe = [fn |-> "none", html |-> html, max_reviews |-> max_reviews,
                   ret |-> None]

CallParseReviews ==
    /\ pc = "reviews"
    /\ probe.fn = "none"
    /\ probe' = [probe EXCEPT
                   !.fn = "parse_reviews_from_html",
                   !.ret = Some(parse_reviews_from_html(probe.html, probe.max_reviews))]
    /\ UNCHANGED <<config, queue, pc, seed_idx, results, novel, now, start_time,
                   returned, trace, hist>>

ReviewsNext == CallParseReviews

ReviewsSpec == ReviewsInit /\ [][ReviewsNext]_vars

\* ------------------------------------------------------------------ the novel page extraction on its own

\* The JSON-LD of a page: no script tag, text that is not JSON, or an object
\* with any of its six keys missing.
LdJsons ==
    {None, Some(None)} \cup
    {Some(Some(v)) :
        v \in [name : {None, Some("t")},
               author_name : {None, Some("w")},
               description : {None, Some("<p>x</p>")},
               numberOfPages : {None, Some(391)},
               ratingValue : {None, Some(44)},
               genre : {None, Some(<<Some("a"), None, Some("b")>>)}]}

\* The `span.label` texts of a page.
LabelTexts ==
    {<<>>, <<"Original">>, <<"Original", " Stub ", "Ongoing">>, <<"Ongoing">>}

Followers == StatItem("Followers", None)
Favorites == StatItem("Favorites", None)
Number(n) == StatItem("other", Some(n))
NotANumber == StatItem("other", None)

\* The stats items of a page.
StatLists ==
    {<<NotANumber, Number(5), Followers, Number(6475), Favorites, Number(1808)>>,
     <<Followers, Number(1), Favorites, Number(2), Followers, Number(3)>>,
     <<>>,
     <<Favorites, Number(1808)>>,
     <<Followers, Number(6475)>>,
     <<Favorites, Number(1808), Followers>>,
     <<Followers, NotANumber, Favorites, Number(1808)>>,
     <<Followers, Favorites, Number(1808)>>}

\* The window.chapters of a page.
ChapterLists ==
    {None, Some(None), Some(Some(<<>>)),
     Some(Some(<<Some("c1"), None, Some("c2")>>))}

NovelPages ==
    {Page(ld, labels, stats, chapters) :
        ld \in LdJsons, labels \in LabelTexts, stats \in StatLists,
        chapters \in ChapterLists}

NovelPageInit ==
    /\ config = [seed_source |-> [kind |-> "Manual", urls |-> <<>>],
                 stop_condition |-> [kind |-> "EmptyQueue", value |-> 0],
                 discovery_enabled |-> FALSE, criteria |-> NoCriteria]
    /\ queue = NewQueue
    /\ pc = "novel_page"
    /\ seed_idx = 1
    /\ results = <<>>
    /\ novel = None
    /\ now = 0
    /\ start_time = None
    /\ returned = None
    /\ trace = NoTrace
    /\ hist = NoHist
    /\ \E html \in NovelPages, novel_id \in Ids :
          probe = [fn |-> "none", html |-> html, novel_id |-> novel_id, ret |-> None]

CallParseNovel ==
    /\ pc = "novel_page"
    /\ probe.fn = "none"
    /\ probe' = [probe EXCEPT
                   !.fn = "parse_novel_from_html",
                   !.ret = Some(parse_novel_from_html(probe.html, probe.novel_id))]
    /\ UNCHANGED <<config, queue, pc, seed_idx, results, novel, now, start_time,
                   returned, trace, hist>>

NovelPageNext == CallParseNovel

NovelPageSpec == NovelPageInit /\ [][NovelPageNext]_vars

\* The sequential program takes its next step whenever it has one: every call
\* it makes returns or panics.
LiveSpec == Init /\ [][Next]_vars /\ WF_vars(Next)

\* ------------------------------------------------------------------ helpers of the properties

IsPrefix(s, t) == Len(s) <= Len(t) /\ SubSeq(t, 1, Len(s)) = s

Kind == config.stop_condition.kind
Limit == config.stop_condition.value

ResultIds == {results[i].novel.id : i \in 1..Len(results)}

Ended == pc \in {"done", "failed", "panicked"}

\* ------------------------------------------------------------------ properties

\* C1: when the stop condition ends the loop, the frontier is what it was when
\* that iteration began: no entry has been consumed.
C1_StopConsumesNothing ==
    trace.stopped_by = "condition" => queue.queue = trace.at_boundary

\* C2: under max_novels = N the result list, and the list returned, never
\* hold more than N scores.
C2_MaxNovelsBound ==
    Kind = "MaxNovels" =>
        /\ Len(results) <= Limit
        /\ returned # None => Len(returned[1]) <= Limit

\* C2 witness: the run has stopped on the condition with N >= 1 scores and
\* candidates still waiting.
C2_Witness ==
    /\ Kind = "MaxNovels" /\ Limit >= 1
    /\ pc = "done" /\ trace.stopped_by = "condition"
    /\ Len(returned[1]) = Limit
    /\ queue.queue # <<>>

\* C3 as stated: under max_time = T, evaluate is never about to be called
\* with the elapsed time already at T or more.
C3_NoEvaluateAfterDeadline ==
    (Kind = "MaxTime" /\ pc = "evaluate") => Elapsed < Limit

\* C3 as amended: under max_time = T a candidate is pre-filtered, fetched and
\* evaluated only if the stop check of its iteration read an elapsed time
\* below T.
C3_CheckedBeforeDeadline ==
    (Kind = "MaxTime" /\ pc \in {"prefilter", "fetch", "evaluate"}) =>
        /\ trace.checked_at # None
        /\ trace.checked_at[1] < Limit

\* C3 witness: evaluate is about to be called at or after T, the check of this
\* iteration having read less than T.
C3_Witness ==
    /\ Kind = "MaxTime" /\ pc = "evaluate"
    /\ trace.checked_at[1] < Limit
    /\ Elapsed >= Limit

\* C4: under empty_queue every run ends, and a run that returns has emptied
\* the frontier.
C4_EmptyQueueTerminates ==
    (Kind = "EmptyQueue") =>
        /\ <>Ended
        /\ [](pc = "done" => is_empty(queue) /\ trace.stopped_by = "exhausted")

\* C4 witness: an empty_queue run with discovery has returned after discovery
\* was called for every id there is.
C4_Witness ==
    /\ Kind = "EmptyQueue" /\ config.discovery_enabled
    /\ pc = "done"
    /\ trace.discovered_for = Ids

\* C5: a discover call that returns an error changes neither the result list
\* nor the frontier and the loop goes on to its next iteration; a score once
\* in the result list stays there.
C5_DiscoverErrContinues ==
    [][/\ (pc = "discover" /\ trace'.discover_result = "err") =>
            /\ pc' = "pop"
            /\ results' = results
            /\ novel[1].id \in ResultIds
            /\ queue' = queue
       /\ IsPrefix(results, results')]_vars

\* C5 witness: a run has returned two scores, its last discover call having
\* failed.
C5_Witness ==
    /\ pc = "done"
    /\ trace.discover_result = "err"
    /\ Len(returned[1]) = 2

\* C6: a push of an id never offered before appends the item and returns true;
\* a push of an id offered before returns false and leaves the queue alone; no
\* id is admitted twice.
C6_PushIdempotent ==
    /\ [][hist'.last.op = "push" =>
            LET item == hist'.last.arg[1] IN
              IF item.id \in hist.offered
              THEN hist'.last.ret = Some(FALSE) /\ queue'.queue = queue.queue
              ELSE hist'.last.ret = Some(TRUE)
                   /\ queue'.queue = Append(queue.queue, item)]_vars
    /\ [](\A i, j \in 1..Len(hist.admitted) :
            hist.admitted[i].id = hist.admitted[j].id => i = j)

\* C6 witness: a push was refused for an id that was admitted and popped.
C6_Witness ==
    /\ hist.last.op = "push" /\ hist.last.ret = Some(FALSE)
    /\ \E i \in 1..Len(hist.popped) : hist.popped[i].id = hist.last.arg[1].id
    /\ queue.queue = <<>>

\* C7: has_seen never goes from true to false.
C7_SeenIsPermanent ==
    [][\A id \in Ids : has_seen(queue, id) => has_seen(queue', id)]_vars

\* C7 witness: an id is seen after its item was popped.
C7_Witness ==
    \E i \in 1..Len(hist.popped) :
        /\ has_seen(queue, hist.popped[i].id)
        /\ \A k \in 1..Len(queue.queue) : queue.queue[k].id # hist.popped[i].id

\* C8: the items popped so far are the first items admitted, in admission
\* order; a pop returns none exactly when the queue is empty.
C8_PopIsFifo ==
    /\ [](IsPrefix(hist.popped, hist.admitted))
    /\ [][hist'.last.op = "pop" =>
            IF queue.queue = <<>>
            THEN hist'.last.ret = None /\ hist'.popped = hist.popped
            ELSE hist'.last.ret = Some(hist.admitted[Len(hist.popped) + 1])]_vars

\* C8 witness: two items popped out of three admitted, a push having come
\* after the first pop.
C8_Witness ==
    /\ Len(hist.popped) = 2
    /\ Len(hist.admitted) = 3
    /\ hist.last.op = "pop"
    /\ len(queue) = 1

\* C9: whatever the stop condition, finding the frontier empty ends the loop
\* and the run returns.
C9_EmptyFrontierStops ==
    [][(pc = "pop" /\ is_empty(queue)) =>
            /\ pc' = "done"
            /\ returned' # None
            /\ Len(returned'[1]) = Len(results)]_vars

\* C9 witness: a max_time run has returned on an empty frontier with time
\* left and a score in hand.
C9_Witness ==
    /\ pc = "done" /\ trace.stopped_by = "exhausted"
    /\ Kind = "MaxTime" /\ Elapsed < Limit
    /\ returned[1] # <<>>

\* C10: a candidate the hard filter rejects is dropped: the iteration changes
\* neither the result list nor the frontier and goes back to the loop head,
\* and no reviews are fetched, no evaluate and no discover is called for it.
C10_RejectedIsDiscarded ==
    /\ [][(pc = "prefilter" /\ ~passes_hard_filters(novel[1], config.criteria)) =>
            /\ pc' = "pop"
            /\ results' = results
            /\ queue' = queue]_vars
    /\ [](\A id \in trace.rejected :
            /\ id \notin trace.fetched
            /\ id \notin trace.evaluated
            /\ id \notin trace.discovered_for
            /\ id \notin ResultIds)

\* C10 witness: after a rejection the loop has gone on to score another
\* candidate.
C10_Witness ==
    /\ trace.rejected # {}
    /\ pc = "evaluate"
    /\ novel[1].id \notin trace.rejected

\* The indices of the discovered list whose novel is new to the frontier: its
\* id is not in seen and does not occur earlier in the list.
NewIn(discovered, seen) ==
    {i \in 1..Len(discovered) :
        /\ discovered[i].id \notin seen
        /\ \A j \in 1..(i - 1) : discovered[j].id # discovered[i].id}

\* C11: a successful discover call appends to the frontier the discovered
\* novels whose id was never admitted, in the order returned and once each, and
\* nothing else; no id waits in the frontier twice, and no id waits there that
\* was already popped.
C11_DiscoveredPushedOnce ==
    /\ [][(pc = "discover" /\ trace'.discover_result = "ok") =>
            LET d == trace'.discovered
                keep == NewIn(d, queue.seen)
                base == Len(queue.queue)
            IN /\ IsPrefix(queue.queue, queue'.queue)
               /\ Len(queue'.queue) = base + Cardinality(keep)
               /\ \A i \in keep :
                     queue'.queue[base + Cardinality({k \in keep : k <= i})] = d[i]
               /\ \A i \in 1..Len(d) : has_seen(queue', d[i].id)]_vars
    /\ [](/\ \A i, j \in 1..Len(queue.queue) :
               queue.queue[i].id = queue.queue[j].id => i = j
          /\ \A i \in 1..Len(queue.queue) :
               /\ queue.queue[i].id \notin trace.rejected \cup trace.fetched
               /\ novel # None => queue.queue[i].id # novel[1].id)

\* C11 witness: the last discover call returned a seed already processed, then
\* the same new novel twice; that novel waits in the frontier once.
C11_Witness ==
    /\ pc = "pop" /\ trace.discover_result = "ok"
    /\ Len(trace.discovered) = 2
    /\ trace.discovered[1].id = trace.discovered[2].id
    /\ Len(queue.queue) = 1
    /\ queue.queue[1] = trace.discovered[1]
    /\ trace.evaluated # {}

\* The place of a score in the result list, where it was put when evaluated.
EvalOrder(score) == CHOOSE k \in 1..Len(results) : results[k] = score

\* C12: the list run() returns holds the scores of the result list, each once,
\* by overall score descending, scores of equal overall score in the order they
\* were evaluated.
C12_ReturnedSortedStable ==
    returned # None =>
        LET out == returned[1] IN
          /\ Len(out) = Len(results)
          /\ \A k \in 1..Len(results) : \E i \in 1..Len(out) : out[i] = results[k]
          /\ \A i, j \in 1..Len(out) :
                i < j =>
                  /\ out[i].overall_score >= out[j].overall_score
                  /\ out[i].overall_score = out[j].overall_score =>
                        EvalOrder(out[i]) < EvalOrder(out[j])

\* C12 witness: three scores were returned in another order than they were
\* evaluated in, two of them with equal overall score.
C12_Witness ==
    /\ pc = "done"
    /\ Len(returned[1]) = 3
    /\ returned[1] # results
    /\ returned[1][1].overall_score = returned[1][2].overall_score
    /\ returned[1][3] = results[1]

\* C13: once scrape_reviews or evaluate has returned an error for a candidate
\* the run has failed and stays as that call left it: nothing is returned, the
\* candidate has no score, discover was not called for it, and it is still
\* the last candidate popped.
C13_ProcessingErrorAborts ==
    trace.error.call \in {"scrape_reviews", "evaluate"} =>
        /\ pc = "failed"
        /\ returned = None
        /\ novel # None /\ novel[1].id = trace.error.at
        /\ trace.error.at \notin ResultIds
        /\ trace.error.at \notin trace.discovered_for
        /\ trace.error.call = "scrape_reviews" => trace.error.at \notin trace.evaluated

\* C13 witness: evaluate failed for the second candidate of a run with
\* discovery, the first one scored and a third one waiting.
C13_Witness ==
    /\ pc = "failed"
    /\ trace.error.call = "evaluate"
    /\ Len(results) = 1
    /\ config.discovery_enabled
    /\ queue.queue # <<>>

\* C14: a seed that cannot be resolved, fetched or extracted fails the run
\* at that seed, before start_time is taken: no candidate is popped,
\* pre-filtered, fetched or evaluated and nothing is returned.  Every seed the
\* loop has gone past was resolved and admitted, so the Processing loop is
\* entered only with every seed admitted.
C14_SeedingErrorAborts ==
    /\ trace.error.call \in {"parse_novel_id", "fetch", "parse_novel_from_html"} =>
          /\ pc = "failed"
          /\ start_time = None
          /\ seed_idx = trace.error.at
          /\ novel = None /\ results = <<>> /\ returned = None
          /\ trace.rejected = {} /\ trace.fetched = {} /\ trace.evaluated = {}
    /\ config.seed_source.kind = "Manual" =>
          /\ \A i \in 1..Len(config.seed_source.urls) :
                (i < seed_idx \/ start_time # None) =>
                   /\ parse_novel_id(config.seed_source.urls[i]) # None
                   /\ has_seen(queue, parse_novel_id(config.seed_source.urls[i])[1])
    /\ config.seed_source.kind = "Search" => start_time = None

\* C14 witness: the extraction of the second seed failed after the first seed
\* was admitted.
C14_Witness ==
    /\ pc = "failed"
    /\ trace.error = [call |-> "parse_novel_from_html", at |-> 2]
    /\ len(queue) = 1
    /\ start_time = None

\* Two letters that differ at most in case.
SameLetter(c, d) == c = d \/ {c, d} = {"a", "A"} \/ {c, d} = {"b", "B"}

\* Two tags equal but for the case of their letters.
EqIgnoreCase(s, t) ==
    Len(s) = Len(t) /\ \A i \in 1..Len(s) : SameLetter(s[i], t[i])

Range(l) == {l[i] : i \in 1..Len(l)}

\* The six conditions of the hard filter, as the claim words them.
SixConditions(n, c) ==
    /\ c.min_pages = None \/ n.pages >= c.min_pages[1]
    /\ c.max_pages = None \/ n.pages <= c.max_pages[1]
    /\ c.min_rating = None \/ n.rating >= c.min_rating[1]
    /\ \/ c.allowed_statuses = None
       \/ c.allowed_statuses[1] = <<>>
       \/ n.status \in Range(c.allowed_statuses[1])
    /\ \/ c.required_tags = None
       \/ \A r \in Range(c.required_tags[1]) :
             \E t \in Range(n.tags) : EqIgnoreCase(r, t)
    /\ \/ c.excluded_tags = None
       \/ \A e \in Range(c.excluded_tags[1]) :
             \A t \in Range(n.tags) : ~EqIgnoreCase(e, t)

\* C15: passes_hard_filters returns true exactly when the six conditions hold:
\* the three bounds inclusive, the status in a non-empty allow-list, every
\* required tag and no excluded tag among the novel's tags up to case; an unset
\* criterion and an empty allow-list are satisfied by every novel.
C15_SixConditions ==
    probe.fn = "passes_hard_filters" =>
        probe.ret[1] = SixConditions(probe.novel[1], probe.criteria[1])

\* C15 witness: a novel at both of its bounds passed, its rating at min_rating
\* and its page count at max_pages.
C15_Witness ==
    /\ probe.fn = "passes_hard_filters"
    /\ probe.ret = Some(TRUE)
    /\ probe.criteria[1].min_rating = Some(probe.novel[1].rating)
    /\ probe.criteria[1].max_pages = Some(probe.novel[1].pages)

\* The value b of a criteria field is tighter than the value a.
TighterField(f, a, b) ==
    /\ b # None
    /\ CASE f \in {"min_pages", "min_rating"} -> a = None \/ b[1] > a[1]
         [] f = "max_pages" -> a = None \/ b[1] < a[1]
         [] f = "allowed_statuses" ->
              /\ b[1] # <<>>
              /\ a = None \/ a[1] = <<>> \/ Range(b[1]) \subseteq Range(a[1])
         [] f \in {"required_tags", "excluded_tags"} ->
              a = None \/ Range(a[1]) \subseteq Range(b[1])

\* C16: when passes_hard_filters has rejected a novel and is called again for
\* it with one bound tightened (a higher min_rating or min_pages, a lower
\* max_pages, a bound set that was unset, a smaller non-empty allow-list, more
\* required or excluded tags), it rejects the novel again.
C16_TighterStillRejects ==
    [][(/\ probe.fn = "passes_hard_filters"
        /\ probe.ret = Some(FALSE)
        /\ probe'.changed # "none"
        /\ TighterField(probe'.changed, probe.criteria[1][probe'.changed],
                        probe'.criteria[1][probe'.changed]))
       => probe'.ret = Some(FALSE)]_vars

\* C16 witness: a novel rejected for its page count was rejected again after
\* min_rating was raised to a bound the novel meets.
C16_Witness ==
    /\ probe.fn = "passes_hard_filters"
    /\ probe.before = Some(FALSE)
    /\ probe.ret = Some(FALSE)
    /\ probe.changed = "min_rating"
    /\ probe.criteria[1].min_rating = Some(MaxRating)
    /\ probe.novel[1].rating = MaxRating
    /\ probe.criteria[1].min_pages # None

\* C17: pre_filter of the local evaluator and pre_filter of the LLM evaluator
\* both return what passes_hard_filters returns for the same novel and
\* criteria, so either strategy discards the same candidates.
C17_PreFilterIsHardFilter ==
    probe.fn \in {"LocalEvaluator::pre_filter", "LlmEvaluator::pre_filter"} =>
        probe.ret[1] = passes_hard_filters(probe.novel[1], probe.criteria[1])

\* C17 witness: the LLM evaluator's pre_filter has rejected a novel for a
\* required tag it lacks.
C17_Witness ==
    /\ probe.fn = "LlmEvaluator::pre_filter"
    /\ probe.ret = Some(FALSE)
    /\ probe.criteria[1] = [NoCriteria EXCEPT !.required_tags = Some(<<<<"a", "b">>>>)]

\* C18: evaluate of the local evaluator, called for a novel that passes the
\* pre-filter, returns a score with an overall score in range, neither an
\* error nor a panic.
C18_LocalEvaluateSucceeds ==
    (/\ probe.fn = "LocalEvaluator::evaluate"
     /\ LocalEvaluator_pre_filter(probe.novel[1], probe.criteria[1])) =>
        \E s \in 0..MaxScore : probe.ret[1] = EvalOk(NovelScore(probe.novel[1], s))

\* A block has all of author, rating, text and date.
IsComplete(b) ==
    /\ b.author # None
    /\ \E i \in 1..Len(b.labels) : b.labels[i].stars /\ b.labels[i].number # None
    /\ b.text # None
    /\ b.time # None /\ b.time[1] # None

\* C19: parse_reviews_from_html returns Ok with the first min(max, k) complete
\* reviews in document order, k being the number of complete blocks of the
\* page; an incomplete block is skipped and does not count towards the cap.
C19_FirstCompleteReviews ==
    probe.fn = "parse_reviews_from_html" =>
        LET complete == {i \in 1..Len(probe.html) : IsComplete(probe.html[i])}
            out == probe.ret[1]
            nth(j) == CHOOSE i \in complete :
                          Cardinality({k \in complete : k <= i}) = j
        IN /\ out.kind = "ok"
           /\ Len(out.value) = Min(probe.max_reviews, Cardinality(complete))
           /\ \A j \in 1..Len(out.value) :
                 /\ out.value[j].author = probe.html[nth(j)].author[1]
                 /\ out.value[j].text = probe.html[nth(j)].text[1]
                 /\ out.value[j].posted_date = probe.html[nth(j)].time[1][1]
                 /\ \E i \in 1..Len(probe.html[nth(j)].labels) :
                       probe.html[nth(j)].labels[i].number = Some(out.value[j].rating)

\* C19 witness: with a cap of 2, the two complete blocks of a page were
\* returned, an incomplete block standing between them.
C19_Witness ==
    /\ probe.fn = "parse_reviews_from_html"
    /\ probe.max_reviews = 2
    /\ Len(probe.html) = 3
    /\ ~IsComplete(probe.html[2])
    /\ Len(probe.ret[1].value) = 2
    /\ probe.ret[1].value[1].author # probe.ret[1].value[2].author

\* The page has no JSON-LD value for the key.
LdAbsent(html, key) ==
    html.ld = None \/ html.ld[1] = None \/ html.ld[1][1][key] = None

\* The page has no count for the label: no item that starts with it is
\* followed by an item with digits.
CountAbsent(html, label) ==
    ~\E i \in 1..(Len(html.stats) - 1) :
        html.stats[i].starts_with = label /\ html.stats[i + 1].digits # None

\* The page has no status marker: no label that names a status.
StatusAbsent(html) ==
    \A i \in 1..Len(html.labels) :
        html.labels[i] \notin {"Ongoing", " Stub ", "ONGOING", "COMPLETED",
                               "HIATUS", "DROPPED", "STUB"}

\* The page has no chapter list.
ChaptersAbsent(html) == html.chapters = None \/ html.chapters[1] = None

\* C20: parse_novel_from_html returns an error, and no record, when the name,
\* the author, the description, the rating, the page count, the tag list, the
\* status marker, the followers count, the favorites count or the chapter
\* list is absent; a record it returns carries the id given and a
\* chapter_count equal to the length of its chapter_titles.
C20_AllOrNothing ==
    probe.fn = "parse_novel_from_html" =>
        LET out == probe.ret[1] IN
          /\ out.kind \in {"ok", "err"}
          /\ (\/ \E key \in {"name", "author_name", "description", "ratingValue",
                              "numberOfPages", "genre"} : LdAbsent(probe.html, key)
              \/ StatusAbsent(probe.html)
              \/ CountAbsent(probe.html, "Followers")
              \/ CountAbsent(probe.html, "Favorites")
              \/ ChaptersAbsent(probe.html)) => out.kind = "err"
          /\ out.kind = "ok" =>
                /\ out.value.id = probe.novel_id
                /\ out.value.chapter_count = Len(out.value.chapter_titles)

\* C20 witness: a record was returned for a page one of whose three chapters
\* has no title: its chapter_count is 2.
C20_Witness ==
    /\ probe.fn = "parse_novel_from_html"
    /\ probe.ret[1].kind = "ok"
    /\ probe.novel_id = 2
    /\ Len(probe.html.chapters[1][1]) = 3
    /\ probe.ret[1].value.chapter_count = 2

\* The ids of the first n configured seeds, in configuration order, each at
\* its first occurrence only.
SeedIds(n) ==
    LET id(i) == parse_novel_id(config.seed_source.urls[i])[1]
        first == {i \in 1..n : \A j \in 1..(i - 1) : id(j) # id(i)}
    IN [k \in 1..Cardinality(first) |->
          id(CHOOSE i \in first : Cardinality({j \in first : j <= i}) = k)]

\* C21: while seeding, nothing has been popped and the frontier holds the
\* seeds gone past so far, in configuration order; the loop is entered only
\* with every configured seed gone past; once it is entered, only a discover
\* step adds to the frontier.
C21_SeedingBeforeProcessing ==
    /\ [](config.seed_source.kind = "Manual" =>
            /\ start_time = None =>
                 /\ novel = None /\ trace.at_boundary = <<>>
                 /\ LET n == Min(seed_idx - 1, Len(config.seed_source.urls)) IN
                      /\ \A i \in 1..n :
                            parse_novel_id(config.seed_source.urls[i]) # None
                      /\ Len(queue.queue) = Len(SeedIds(n))
                      /\ \A k \in 1..Len(queue.queue) :
                            queue.queue[k].id = SeedIds(n)[k]
            /\ start_time # None => seed_idx = Len(config.seed_source.urls) + 1)
    /\ [][(start_time # None /\ pc # "discover") =>
            /\ IsPrefix(queue'.queue, queue.queue) \/ queue'.queue = Tail(queue.queue)
            /\ queue'.seen = queue.seen]_vars

\* C21 witness: the first pop took the first of two configured seeds, the
\* second one waiting behind it.
C21_Witness ==
    /\ pc = "check"
    /\ trace.checked_at = None
    /\ Len(config.seed_source.urls) = 2
    /\ novel[1].id = parse_novel_id(config.seed_source.urls[1])[1]
    /\ len(queue) = 1
    /\ queue.queue[1].id = parse_novel_id(config.seed_source.urls[2])[1]

\* C22: from the pre-filter on, the steps of one candidate follow one another
\* (pre-filter, fetch, evaluate, discover) with neither a pop nor a stop check
\* in between, and the run does not return in between; so whenever the stop
\* condition is consulted, and when the run has returned, discover has been
\* called for every scored candidate, the N-th under max_novels = N included.
C22_EndToEnd ==
    /\ [][/\ pc = "prefilter" => pc' \in {"fetch", "pop"}
          /\ pc = "fetch" => pc' \in {"evaluate", "failed"}
          /\ pc = "evaluate" =>
                pc' \in {IF config.discovery_enabled THEN "discover" ELSE "pop",
                         "failed", "panicked"}
          /\ pc = "discover" => pc' \in {"pop", "panicked"}
          /\ pc \in {"prefilter", "fetch", "evaluate", "discover"} =>
                /\ novel' = novel
                /\ returned' = None
                /\ trace'.checked_at = trace.checked_at]_vars
    /\ []((config.discovery_enabled /\ pc \in {"pop", "check", "done"}) =>
            ResultIds \subseteq trace.discovered_for)

\* C22 witness: a max_novels = 1 run with one seed has stopped on its
\* condition with a discovered novel still in the frontier.
C22_Witness ==
    /\ Kind = "MaxNovels" /\ Limit = 1
    /\ Len(config.seed_source.urls) = 1
    /\ pc = "done" /\ trace.stopped_by = "condition"
    /\ Len(results) = 1
    /\ queue.queue # <<>>

\* C23: under max_time = T a candidate goes on to the pre-filter only if the
\* time since run() was entered, seeding included, was below T when the stop
\* condition was consulted for it.
C23_SeedingTimeCounts ==
    (Kind = "MaxTime" /\ pc \in {"prefilter", "fetch", "evaluate"}) =>
        start_time[1] + trace.checked_at[1] < Limit

\* C24: in every state of a NovelQueue the queued ids are pairwise distinct and
\* all in the seen set, and the seen set is the set of the ids of the items
\* for which push returned true.
C24_QueueInvariant ==
    /\ \A i, j \in 1..Len(queue.queue) :
          queue.queue[i].id = queue.queue[j].id => i = j
    /\ \A i \in 1..Len(queue.queue) : queue.queue[i].id \in queue.seen
    /\ queue.seen = {hist.admitted[i].id : i \in 1..Len(hist.admitted)}

\* C24 witness: two items are queued, a third was popped, and a push of the
\* popped id has just been refused.
C24_Witness ==
    /\ len(queue) = 2
    /\ Cardinality(queue.seen) = 3
    /\ hist.last.op = "push" /\ hist.last.ret = Some(FALSE)
    /\ \A i \in 1..len(queue) : queue.queue[i].id # hist.last.arg[1].id

\* C25: a candidate about to be checked or pre-filtered was never popped
\* before (it was not rejected, fetched, evaluated or scored), one about to be
\* fetched or evaluated has not been so before, and the scores of the result
\* list have pairwise distinct candidate ids.
C25_NoIdTwice ==
    /\ pc \in {"check", "prefilter"} =>
          novel[1].id \notin
            trace.rejected \cup trace.fetched \cup trace.evaluated \cup ResultIds
    /\ pc = "fetch" => novel[1].id \notin trace.fetched \cup trace.rejected
    /\ pc = "evaluate" => novel[1].id \notin trace.evaluated \cup ResultIds
    /\ \A i, j \in 1..Len(results) :
          results[i].novel.id = results[j].novel.id => i = j

\* C25 witness: a discover call has just returned two novels already scored,
\* and a candidate that was not yet popped waits in the frontier.
C25_Witness ==
    /\ pc = "pop"
    /\ Len(trace.discovered) = 2
    /\ trace.discovered[1].id # trace.discovered[2].id
    /\ \A i \in 1..2 : trace.discovered[i].id \in ResultIds
    /\ len(queue) = 1

\* C26: a push that returns false, a pop that returns None and the observers
\* len, is_empty and has_seen leave the queued sequence and the seen set as
\* they were, and a pop that returns a novel leaves the seen set as it was.
C26_NothingAdmittedNothingChanged ==
    [][/\ (hist'.last.op = "push" /\ hist'.last.ret = Some(FALSE)) => queue' = queue
       /\ (hist'.last.op = "pop" /\ hist'.last.ret = None) => queue' = queue
       /\ hist'.last.op \in {"len", "is_empty", "has_seen"} => queue' = queue
       /\ hist'.last.op = "pop" => queue'.seen = queue.seen]_vars

\* C26 witness: has_seen has just answered true for the id of a popped novel,
\* while another novel waits in the queue.
C26_Witness ==
    /\ hist.last.op = "has_seen" /\ hist.last.ret = Some(TRUE)
    /\ \E i \in 1..Len(hist.popped) : hist.popped[i].id = hist.last.arg[1]
    /\ len(queue) = 1
    /\ queue.queue[1].id # hist.last.arg[1]

\* C27: when discover is about to be called, discovery is enabled, it was not
\* called for this candidate before, the candidate's score is the last entry
\* of the result list, the candidate passed the pre-filter and no call has
\* failed; so discover has only been called for scored candidates, never for a
\* rejected one, never for one whose fetch or evaluation failed, and never
\* with discovery disabled.
C27_DiscoverOncePerScored ==
    /\ pc = "discover" =>
          /\ config.discovery_enabled
          /\ novel[1].id \notin trace.discovered_for
          /\ results # <<>>
          /\ results[Len(results)].novel = novel[1]
          /\ novel[1].id \notin trace.rejected
          /\ trace.error.call = "none"
    /\ trace.discovered_for \subseteq ResultIds
    /\ trace.discovered_for \cap trace.rejected = {}
    /\ trace.error.call \in {"scrape_reviews", "evaluate"} =>
          trace.error.at \notin trace.discovered_for
    /\ ~config.discovery_enabled => trace.discovered_for = {}

\* C27 witness: discover is about to be called for a second scored candidate,
\* after a third candidate was rejected by the pre-filter.
C27_Witness ==
    /\ pc = "discover"
    /\ Cardinality(trace.discovered_for) = 1
    /\ trace.rejected # {}
    /\ Len(results) = 2

\* The ids of the candidates popped so far: each one was rejected, fetched, or
\* is the one at hand.
Popped ==
    trace.rejected \cup trace.fetched
        \cup (IF novel = None THEN {} ELSE {novel[1].id})

\* The number of distinct ids among the configured seeds.
DistinctSeeds == Len(SeedIds(Len(config.seed_source.urls)))

\* C28: with discovery disabled, once the loop is entered no step lengthens
\* the frontier and each pop of a candidate shortens it by one; the number of
\* candidates popped plus the length of the frontier is the number of distinct
\* seed ids, so at most that many iterations run, and the result list has at
\* most that many entries.
C28_FrontierOnlyShrinks ==
    /\ [][(~config.discovery_enabled /\ start_time # None) =>
            /\ len(queue') <= len(queue)
            /\ (pc = "pop" /\ pc' = "check") => len(queue') = len(queue) - 1]_vars
    /\ []((~config.discovery_enabled /\ start_time # None) =>
            /\ Cardinality(Popped) + len(queue) = DistinctSeeds
            /\ Cardinality(Popped) <= DistinctSeeds
            /\ Len(results) <= DistinctSeeds)

\* C28 witness: discovery is disabled, the two configured seeds have the same
\* id, and the run has returned after one iteration with one score.
C28_Witness ==
    /\ ~config.discovery_enabled
    /\ pc = "done"
    /\ Len(config.seed_source.urls) = 2
    /\ DistinctSeeds = 1
    /\ Cardinality(Popped) = 1
    /\ Len(results) = 1

\* C29: a run that failed or panicked has returned no list, whatever scores
\* it had gathered; a list is returned only by a run that ended normally, and
\* it is then the whole result list, highest overall score first.
C29_AllOrNothing ==
    /\ pc \in {"failed", "panicked"} => returned = None
    /\ pc = "done" => returned # None
    /\ returned # None =>
          /\ pc = "done"
          /\ Len(returned[1]) = Len(results)
          /\ \A i \in 1..Len(results) :
                \E j \in 1..Len(returned[1]) : returned[1][j] = results[i]
          /\ \A i \in 1..(Len(returned[1]) - 1) :
                returned[1][i].overall_score >= returned[1][i + 1].overall_score

\* C29 witness: the evaluation of the second candidate accepted has failed,
\* the score of the first is in the result list, and nothing is returned.
C29_Witness ==
    /\ pc = "failed"
    /\ trace.error.call = "evaluate"
    /\ Len(results) = 1
    /\ trace.error.at \notin ResultIds
    /\ returned = None

====
